---- MODULE Spec2Model ----
(***************************************************************************)
(* Model of convert_md_to_pdf.py: the batch driver main() and the          *)
(* per-file operation convert_md_to_pdf().  Paths are sequences of         *)
(* one-character strings so that glob matching, list.sort(), str.replace() *)
(* and os.path.basename() are computed as Python computes them.  The two   *)
(* libraries (markdown, weasyprint) and the file system are the            *)
(* environment: whether the libraries are importable and which step of a   *)
(* conversion raises for which input file are chosen in Init.              *)
(***************************************************************************)
EXTENDS Integers, Sequences, FiniteSets, TLC

VARIABLES deps, fs, fault, pc, md_files, i, pdf_file, ret, success_count,
          out, calls, run, fs0, prev

vars == <<deps, fs, fault, pc, md_files, i, pdf_file, ret, success_count,
          out, calls, run, fs0, prev>>

\* ---------------------------------------------------------------- bounds
MaxFiles == 3    \* most entries the Concurency directory holds at start
MaxRuns  == 2    \* most consecutive runs of the script

\* ------------------------------------------------------- strings and paths
DirPrefix == <<"C","o","n","c","u","r","e","n","c","y","/">>
MdExt     == <<".","m","d">>
PdfExt    == <<".","p","d","f">>

\* Code points of the characters that occur in the modelled paths.
Code == [c \in {".", "/", "C", "a", "b", "c", "d", "e", "f", "m", "n", "o",
                "p", "r", "u", "y"} |->
           CASE c = "." -> 46  [] c = "/" -> 47  [] c = "C" -> 67
             [] c = "a" -> 97  [] c = "b" -> 98  [] c = "c" -> 99
             [] c = "d" -> 100 [] c = "e" -> 101 [] c = "f" -> 102
             [] c = "m" -> 109 [] c = "n" -> 110 [] c = "o" -> 111
             [] c = "p" -> 112 [] c = "r" -> 114 [] c = "u" -> 117
             [] c = "y" -> 121]

\* Directory entries the environment may place in Concurency/.
FileNames ==
  { <<"a",".","m","d">>,
    <<"b",".","m","d">>,
    <<"a",".","m","d",".","m","d">>,
    <<"a",".","p","d","f",".","m","d">>,
    <<"a",".","p","d","f">>,
    <<".","m","d">>,
    <<"a",".","m","d","f">> }

Faults == {"none", "read", "render", "open", "write"}

Range(s) == { s[k] : k \in 1..Len(s) }

EndsWith(s, suffix) ==
  /\ Len(s) >= Len(suffix)
  /\ SubSeq(s, Len(s) - Len(suffix) + 1, Len(s)) = suffix

\* Python's str < str: code-point order, a proper prefix is smaller.
LexLess(s, t) ==
  \E k \in 1..(Len(s) + 1) :
     /\ k <= Len(t)
     /\ \A j \in 1..(k - 1) : s[j] = t[j]
     /\ \/ k = Len(s) + 1
        \/ k <= Len(s) /\ Code[s[k]] < Code[t[k]]

RECURSIVE Insert(_, _)
Insert(x, s) ==
  IF s = <<>> THEN <<x>>
  ELSE IF LexLess(s[1], x) THEN <<s[1]>> \o Insert(x, Tail(s))
  ELSE <<x>> \o s

RECURSIVE SortedOf(_)
SortedOf(s) == IF s = <<>> THEN <<>> ELSE Insert(s[1], SortedOf(Tail(s)))

\* md_files.sort()
NoSort(s) == s
SortList(s) == SortedOf(s)

\* str.replace(old, new): every non-overlapping occurrence, left to right.
RECURSIVE Replace(_, _, _)
Replace(s, old, new) ==
  IF Len(s) < Len(old) THEN s
  ELSE IF SubSeq(s, 1, Len(old)) = old
       THEN new \o Replace(SubSeq(s, Len(old) + 1, Len(s)), old, new)
       ELSE <<s[1]>> \o Replace(Tail(s), old, new)

\* pdf_file = md_file.replace('.md', '.pdf')
PdfPath(md_file) == Replace(md_file, MdExt, PdfExt)

\* os.path.basename
Basename(p) ==
  LET slashes == { k \in 1..Len(p) : p[k] = "/" }
      last    == IF slashes = {} THEN 0
                 ELSE CHOOSE k \in slashes : \A j \in slashes : j <= k
  IN  SubSeq(p, last + 1, Len(p))

\* fnmatch of a directory entry against "*.md"; glob skips hidden entries
\* because the pattern does not start with a dot.
MatchesAny(name) == name # <<>> /\ name[1] # "."
Matches(name) == EndsWith(name, MdExt) /\ name[1] # "."

\* The set of paths glob.glob("Concurency/*.md") returns for a directory.
Glob(filesys) == { DirPrefix \o n : n \in { m \in DOMAIN filesys : Matches(m) } }

\* glob returns the matches in an arbitrary order.
Orderings(S) ==
  { f \in [1..Cardinality(S) -> S] :
      \A a, b \in 1..Cardinality(S) : a # b => f[a] # f[b] }

\* The directory entry a path of the Concurency directory names.
EntryOf(p) == SubSeq(p, Len(DirPrefix) + 1, Len(p))

\* What the environment does to a conversion of path p.
FaultOf(p) == IF p \in DOMAIN fault THEN fault[p] ELSE "read"

\* ------------------------------------------------------------ output lines
Line(tag, p, q, n, m) == [tag |-> tag, p |-> p, q |-> q, n |-> n, m |-> m]

StartLine          == Line("start", <<>>, <<>>, 0, 0)
DepErrorLine       == Line("deperror", <<>>, <<>>, 0, 0)
HintLine           == Line("hint", <<>>, <<>>, 0, 0)
NoneLine           == Line("none", <<>>, <<>>, 0, 0)
FoundLine(n)       == Line("found", <<>>, <<>>, n, 0)
ConvertingLine(a, b) == Line("converting", Basename(a), Basename(b), 0, 0)
ErrorLine(md)      == Line("error", md, <<>>, 0, 0)
OkLine(pdf)        == Line("ok", Basename(pdf), <<>>, 0, 0)
FailedLine(md)     == Line("failed", Basename(md), <<>>, 0, 0)
SummaryLine(s, n)  == Line("summary", <<>>, <<>>, s, n)
CheckLine          == Line("check", <<>>, <<>>, 0, 0)

\* ------------------------------------------------------- convert_md_to_pdf
PdfOf(md) == [kind |-> "pdf", src |-> md]
Partial   == [kind |-> "partial", src |-> <<>>]
Old       == [kind |-> "old", src |-> <<>>]

\* open(target, 'wb') followed by the write: the whole file is replaced.
WriteFile(filesys, path, content) ==
  LET e == EntryOf(path)
  IN  [n \in DOMAIN filesys \cup {e} |-> IF n = e THEN content ELSE filesys[n]]

Outcome(raised, r, lines, filesys) ==
  [raised |-> raised, ret |-> r, lines |-> lines, fs |-> filesys]

\* Variant: the handler catches read errors only.
convert_narrow_except(md_file_path, output_path, filesys, f) ==
  CASE f = "none"  -> Outcome(FALSE, TRUE, <<>>,
                              WriteFile(filesys, output_path, PdfOf(md_file_path)))
    [] f = "read"  -> Outcome(FALSE, FALSE, <<ErrorLine(md_file_path)>>, filesys)
    [] f = "write" -> Outcome(TRUE, FALSE, <<>>,
                              WriteFile(filesys, output_path, Partial))
    [] OTHER       -> Outcome(TRUE, FALSE, <<>>, filesys)

\* Variant: a failed write is not noticed.
convert_ignores_write(md_file_path, output_path, filesys, f) ==
  CASE f = "none"  -> Outcome(FALSE, TRUE, <<>>,
                              WriteFile(filesys, output_path, PdfOf(md_file_path)))
    [] f = "write" -> Outcome(FALSE, TRUE, <<>>,
                              WriteFile(filesys, output_path, Partial))
    [] f = "open"  -> Outcome(FALSE, TRUE, <<>>, filesys)
    [] OTHER       -> Outcome(FALSE, FALSE, <<ErrorLine(md_file_path)>>, filesys)

\* try: read, render, write_pdf, return True
\* except Exception: print the diagnostic, return False
convert_md_to_pdf(md_file_path, output_path, filesys, f) ==
  CASE f = "none"  -> Outcome(FALSE, TRUE, <<>>,
                              WriteFile(filesys, output_path, PdfOf(md_file_path)))
    [] f = "write" -> Outcome(FALSE, FALSE, <<ErrorLine(md_file_path)>>,
                              WriteFile(filesys, output_path, Partial))
    [] OTHER       -> Outcome(FALSE, FALSE, <<ErrorLine(md_file_path)>>, filesys)

\* ------------------------------------------------------------------- main
\* "if not md_files"
NeverEmpty(files) == FALSE
IsEmpty(files) == files = <<>>

\* "success_count += 1" in the True branch only
CountAlways(c, r) == c + 1
Count(c, r) == IF r THEN c + 1 ELSE c

\* the for loop moves to the next element
SkipIndex(idx) == idx + 2
NextIndex(idx) == idx + 1

Snapshot == [md_files |-> md_files, success_count |-> success_count,
             out |-> out, calls |-> calls, fs |-> fs, pc |-> pc]
NoSnapshot == [md_files |-> <<>>, success_count |-> 0, out |-> <<>>,
               calls |-> <<>>, fs |-> <<>>, pc |-> "none"]

InitFrom(names) ==
  /\ deps \in {"present", "missing"}
  /\ \E d \in SUBSET names :
        /\ Cardinality(d) <= MaxFiles
        /\ fs = [n \in d |-> Old]
  /\ fault \in [Glob(fs) -> Faults]
  /\ pc = "load"
  /\ md_files = <<>>
  /\ i = 0
  /\ pdf_file = <<>>
  /\ ret = FALSE
  /\ success_count = 0
  /\ out = <<>>
  /\ calls = <<>>
  /\ run = 1
  /\ fs0 = fs
  /\ prev = NoSnapshot

Init == InitFrom(FileNames)

\* The directories of the fairness specification: matching entries only.
LoopInit == InitFrom({ n \in FileNames : Matches(n) /\ Len(n) <= 7 })

\* Lines 7-12 and 154-155: the module-level imports run before main().
LoadModule ==
  /\ pc = "load"
  /\ pc' = IF deps = "missing" THEN "uncaught" ELSE "main"
  /\ UNCHANGED <<deps, fs, fault, md_files, i, pdf_file, ret, success_count,
                 out, calls, run, fs0, prev>>

\* Lines 115-138: banner, dependency check, glob, sort, empty check.
MainStart ==
  /\ pc = "main"
  /\ IF deps = "missing"
     THEN /\ out' = out \o <<StartLine, DepErrorLine, HintLine>>
          /\ pc' = "returned"
          /\ UNCHANGED <<md_files, i, success_count>>
     ELSE \E listing \in Orderings(Glob(fs)) :
            LET files == SortList(listing)
            IN  /\ md_files' = files
                /\ IF IsEmpty(files)
                   THEN /\ out' = out \o <<StartLine, NoneLine>>
                        /\ pc' = "returned"
                        /\ UNCHANGED <<i, success_count>>
                   ELSE /\ out' = out \o <<StartLine, FoundLine(Len(files))>>
                        /\ success_count' = 0
                        /\ i' = 1
                        /\ pc' = "loop"
  /\ UNCHANGED <<deps, fs, fault, pdf_file, ret, calls, run, fs0, prev>>

\* Lines 141-143: next file, derive the output path, progress line.
LoopStep ==
  /\ pc = "loop"
  /\ i <= Len(md_files)
  /\ pdf_file' = PdfPath(md_files[i])
  /\ out' = Append(out, ConvertingLine(md_files[i], PdfPath(md_files[i])))
  /\ pc' = "call"
  /\ UNCHANGED <<deps, fs, fault, md_files, i, ret, success_count, calls,
                 run, fs0, prev>>

\* Line 145 and lines 14-113: the call of convert_md_to_pdf.
Convert ==
  /\ pc = "call"
  /\ LET r == convert_md_to_pdf(md_files[i], pdf_file, fs, FaultOf(md_files[i]))
     IN  /\ calls' = Append(calls, [md |-> md_files[i], pdf |-> pdf_file,
                                  ret |-> r.ret])
         /\ fs' = r.fs
         /\ out' = out \o r.lines
         /\ ret' = r.ret
         /\ pc' = IF r.raised THEN "uncaught" ELSE "ret"
  /\ UNCHANGED <<deps, fault, md_files, i, pdf_file, success_count, run, fs0,
                 prev>>

\* Lines 145-149: result line and success counter.
AfterConvert ==
  /\ pc = "ret"
  /\ out' = Append(out, IF ret THEN OkLine(pdf_file) ELSE FailedLine(md_files[i]))
  /\ success_count' = Count(success_count, ret)
  /\ i' = NextIndex(i)
  /\ pc' = "loop"
  /\ UNCHANGED <<deps, fs, fault, md_files, pdf_file, ret, calls, run, fs0,
                 prev>>

\* Lines 151-152: the loop is exhausted, summary, return.
Finish ==
  /\ pc = "loop"
  /\ i > Len(md_files)
  /\ out' = out \o <<SummaryLine(success_count, Len(md_files)), CheckLine>>
  /\ pc' = "returned"
  /\ UNCHANGED <<deps, fs, fault, md_files, i, pdf_file, ret, success_count,
                 calls, run, fs0, prev>>

\* The operator starts the script again in the same directory, with the
\* same libraries and the same inputs.
Rerun ==
  /\ pc \in {"returned", "uncaught"}
  /\ run < MaxRuns
  /\ run' = run + 1
  /\ prev' = Snapshot
  /\ fs0' = fs
  /\ pc' = "load"
  /\ md_files' = <<>>
  /\ i' = 0
  /\ pdf_file' = <<>>
  /\ ret' = FALSE
  /\ success_count' = 0
  /\ out' = <<>>
  /\ calls' = <<>>
  /\ UNCHANGED <<deps, fs, fault>>

Step == LoadModule \/ MainStart \/ LoopStep \/ Convert \/ AfterConvert \/ Finish

Next == LoadModule \/ MainStart \/ LoopStep \/ Convert \/ AfterConvert
          \/ Finish \/ Rerun

Spec == Init /\ [][Next]_vars

\* The interpreter runs the script's statements one after another.
FairSpec == LoopInit /\ [][Next]_vars /\ WF_vars(Step)

\* ------------------------------------------------------------- properties
Failing(files) == { k \in 1..Len(files) : FaultOf(files[k]) # "none" }
TrueCalls      == { k \in 1..Len(calls) : calls[k].ret }
IsResult(l)    == l.tag \in {"ok", "failed"}
ResultLines    == SelectSeq(out, IsResult)
ResultFor(c)   == IF c.ret THEN OkLine(c.pdf) ELSE FailedLine(c.md)
SwapExtension(p) == SubSeq(p, 1, Len(p) - Len(MdExt)) \o PdfExt

\* C1: with N >= 1 matching files of which M convert without an exception,
\* main() ends by printing the summary M/N; success_count counts exactly the
\* calls of convert_md_to_pdf that returned True.
C1_SummaryCounts ==
  /\ pc \in {"loop", "call", "returned"} => success_count = Cardinality(TrueCalls)
  /\ (pc = "returned" /\ Glob(fs0) # {}) =>
        /\ Len(out) >= 2
        /\ out[Len(out) - 1] =
             SummaryLine(Cardinality({ p \in Glob(fs0) : FaultOf(p) = "none" }),
                         Cardinality(Glob(fs0)))
        /\ success_count = Cardinality({ p \in Glob(fs0) : FaultOf(p) = "none" })

C1_Witness ==
  /\ pc = "returned"
  /\ Len(md_files) >= 2
  /\ success_count >= 1
  /\ success_count < Len(md_files)

\* C2: a failing file never stops the batch: every file after a failing file
\* is converted exactly once, the failing file gets a "Failed to convert"
\* line and is not counted as a success.
C2_FailureDoesNotStopBatch ==
  /\ pc = "uncaught" => calls = <<>>
  /\ pc = "returned" =>
       \A k \in Failing(md_files) :
          /\ \A j \in (k + 1)..Len(md_files) :
                Cardinality({ c \in 1..Len(calls) : calls[c].md = md_files[j] }) = 1
          /\ FailedLine(md_files[k]) \in Range(out)
          /\ \A c \in 1..Len(calls) : calls[c].md = md_files[k] => ~calls[c].ret
          /\ success_count <= Len(md_files) - Cardinality(Failing(md_files))

C2_Witness ==
  /\ pc = "returned"
  /\ \E k \in Failing(md_files) :
        /\ k < Len(md_files)
        /\ (k + 1) \notin Failing(md_files)
        /\ \E c \in 1..Len(calls) : calls[c].md = md_files[k + 1] /\ calls[c].ret

\* C3: the output path handed to the converter is the input path with only
\* its final extension changed from .md to .pdf, for every matched name.
C3_OnlyExtensionChanged ==
  \A c \in 1..Len(calls) : calls[c].pdf = SwapExtension(calls[c].md)

\* C4: with a required library missing the run ends with the installation
\* hint, not with an uncaught error, and converts nothing.
C4_MissingDependencyHint ==
  (deps = "missing" /\ pc \in {"returned", "uncaught"}) =>
     /\ pc = "returned"
     /\ HintLine \in Range(out)
     /\ md_files = <<>>
     /\ calls = <<>>

\* C5: with no matching file main() prints the "none found" line and
\* returns; no conversion, no file written, no summary line.
C5_NoFilesFound ==
  (pc = "returned" /\ Glob(fs0) = {}) =>
     /\ out = <<StartLine, NoneLine>>
     /\ calls = <<>>
     /\ fs = fs0

C5_Witness ==
  /\ pc = "returned"
  /\ Glob(fs0) = {}
  /\ DOMAIN fs0 # {}
  /\ NoneLine \in Range(out)

\* C6: convert_md_to_pdf returns True only if read, render and write all
\* completed; if any of them raises, nothing propagates, exactly one
\* diagnostic naming the input path is printed and False is returned.
C6_ConvertContract ==
  [][pc = "call" =>
       LET f == FaultOf(md_files[i])
       IN  /\ pc' = "ret"
           /\ ret' => f = "none"
           /\ f = "none" => (ret' /\ out' = out)
           /\ f # "none" => (~ret' /\ out' = Append(out, ErrorLine(md_files[i])))]_vars

C6_Witness ==
  /\ pc = "ret"
  /\ ~ret
  /\ FaultOf(md_files[i]) \in {"render", "write", "open", "read"}
  /\ out[Len(out)] = ErrorLine(md_files[i])

\* C7: once the batch loop has started the run always reaches the summary
\* line and main() returns normally, whatever the per-file failures.
C7_LoopReachesSummary ==
  (pc = "loop") ~>
     (/\ pc = "returned"
      /\ SummaryLine(success_count, Len(md_files)) \in Range(out))

C7_Witness ==
  /\ pc = "returned"
  /\ Failing(md_files) # {}
  /\ out[Len(out) - 1].tag = "summary"

\* C8: a second run on the unchanged directory enumerates the same inputs
\* (never an output of the earlier run), writes the same output paths and
\* leaves the same files and the same summary counts as the run before it.
C8_RerunIdempotent ==
  (run >= 2 /\ pc = "returned") =>
     /\ prev.pc = "returned"
     /\ md_files = prev.md_files
     /\ \A k \in 1..Len(prev.calls) : prev.calls[k].pdf \notin Range(md_files)
     /\ calls = prev.calls
     /\ fs = prev.fs
     /\ success_count = prev.success_count
     /\ out = prev.out

C8_Witness ==
  /\ run >= 2
  /\ pc = "returned"
  /\ success_count >= 1
  /\ \E k \in 1..Len(calls) : calls[k].ret /\ EntryOf(calls[k].pdf) \in DOMAIN fs0

\* C9: files are converted one at a time in ascending lexicographic order;
\* the attempt and the result line of a file precede the attempt of every
\* later file, and every enumerated file is attempted exactly once.
C9_AscendingOneAtATime ==
  /\ \A k \in 1..(Len(md_files) - 1) : LexLess(md_files[k], md_files[k + 1])
  /\ Len(calls) <= Len(md_files)
  /\ \A k \in 1..Len(calls) : calls[k].md = md_files[k]
  /\ pc = "call" =>
        /\ Len(calls) = i - 1
        /\ Len(ResultLines) = i - 1
        /\ \A k \in 1..(i - 1) : ResultLines[k] = ResultFor(calls[k])
  /\ pc = "returned" =>
        /\ Len(calls) = Len(md_files)
        /\ Range(md_files) = Glob(fs0)

C9_Witness ==
  /\ pc = "call"
  /\ i >= 2
  /\ Len(md_files) >= 3

\* C10: within a run distinct inputs have distinct output paths, no output
\* path is an input path, and every file reported as converted still has
\* its own output when the run ends.
C10_IndependentOutputs ==
  /\ \A a, b \in 1..Len(calls) : a # b => calls[a].pdf # calls[b].pdf
  /\ \A a \in 1..Len(calls) : calls[a].pdf \notin Range(md_files)
  /\ pc = "returned" =>
       \A a \in 1..Len(calls) :
          calls[a].ret =>
             /\ EntryOf(calls[a].pdf) \in DOMAIN fs
             /\ fs[EntryOf(calls[a].pdf)] = PdfOf(calls[a].md)

====
